---------------------------- MODULE Spec2Model ----------------------------
(*************************************************************************)
(* EUR/USD signal dashboard (src/app.py, src/database.py, src/models.py) *)
(*                                                                       *)
(* The Flask application serves every request on its own thread and      *)
(* starts a daemon thread that refreshes the shared dictionaries         *)
(* market_data and economic_news.  A thread is modelled as a record with *)
(* a program counter; one action is one uninterrupted stretch of a       *)
(* handler between two points where another thread can observe or        *)
(* change the shared state.                                              *)
(*                                                                       *)
(* Prices are integers in units of 0.00001 (1.07000 = 107000).           *)
(*************************************************************************)
EXTENDS Integers, Sequences, FiniteSets, TLC

(* ------------------------------ bounds ------------------------------ *)

\* Request threads the server runs at the same time.
NumThreads == 2

\* Readings of datetime.now() that differ; later readings repeat the last.
MaxClock == 1

\* Requests GET / served in one run of the dashboard specification.
MaxDashboardRequests == 2

\* API requests served in one run of the API specification.
MaxApiRequests == 11

\* Rows a table holds before the gateway specification stops writing to it.
MaxRows == 2

\* Longest run of consecutive database calls an outage makes fail.
MaxOutage == 3

\* Requests served while the refresh loop is watched.
MaxLoopRequests == 2

\* Requests GET /api/new-signal served with the database tables created.
MaxPersistRequests == 2

(* ------------------------- program constants ------------------------ *)

\* app.py:38, app.py:45  "last_update": None
None == -1

\* app.py:316, app.py:353  len(history) > 10
HistoryCapacity == 10

\* database.py:22  create_db_engine(url, max_retries=3, ...)
EngineMaxRetries == 3

\* database.py:71  db_operation(operation_func, max_retries=3, ...)
OperationMaxRetries == 3

RequestThreads == 1..NumThreads

\* The updater thread started by request thread t (app.py:470) is t + NumThreads:
\* a request thread calls start_background_thread at most once, because it sets
\* background_thread_started before it returns.
UpdaterOf(t) == t + NumThreads

UpdaterThreads == {UpdaterOf(t) : t \in RequestThreads}

Threads == RequestThreads \cup UpdaterThreads

\* The rows ticker.history(period="1d") can answer with (app.py:74):
\* Close, Volume, High.max(), Low.min().
Quotes ==
  { [close |-> 108900, volume |-> 2000000, high |-> 109000, low |-> 108000] }

\* 1.07 + random.random() * 0.01  (app.py:96)
FallbackPrices == {107500}

VARIABLES
  background_thread_started,  \* app.py:476
  market_data,                \* app.py:33
  economic_news,              \* app.py:42
  trading_hours,              \* app.py:49
  history,                    \* app.py:30, each signal named by its append number
  appended,                   \* number of history.append calls so far
  th,                         \* the threads: program counter and locals
  clock,                      \* the wall clock datetime.now() reads
  quota,                      \* requests the run may still start
  DATABASE_URL,               \* database.py:11-15
  boot,                       \* the import of database.py and app.py
  engine,                     \* database.py:66
  tables_created,             \* whether Base.metadata.create_all has run
  signals,                    \* table signals (models.py:8)
  signal_results,             \* table signal_results (models.py:51)
  market_snapshots,           \* table market_snapshots (models.py:78)
  outage,                     \* database calls that will still fail
  last,                       \* the gateway call that returned last
  analysis,                   \* a call of analyze_signal made on its own
  reply                       \* the last answer of POST /api/settings

appVars == <<background_thread_started, market_data, economic_news,
             trading_hours, history, appended, th, clock, quota>>

tables == <<signals, signal_results, market_snapshots>>

bootVars == <<DATABASE_URL, boot, engine, tables_created>>

dbVars == <<bootVars, tables, outage, last>>

\* What the handlers and the updater threads leave alone unless they say so.
others == <<dbVars, analysis, reply>>

vars == <<appVars, dbVars, analysis, reply>>

(* ----------------------------- helpers ------------------------------ *)

Min(a, b) == IF a < b THEN a ELSE b

Max(a, b) == IF a > b THEN a ELSE b

\* The clock after a reading: it advances until the readings saturate.
Tick(c) == Min(c + 1, MaxClock)

NoUpdate ==
  [current_price |-> 0, volume |-> 0, high_24h |-> 0, low_24h |-> 0,
   last_update |-> None]

NoSignal ==
  [made |-> FALSE, trading_allowed |-> FALSE, news_spike |-> FALSE,
   has_high_impact_news |-> FALSE]

\* A thread that runs nothing: no handler, no locals.
IdleThread ==
  [kind |-> "none", pc |-> "idle", site |-> "none", upd |-> NoUpdate,
   trading_allowed |-> FALSE, news_spike |-> FALSE, signal |-> NoSignal]


(* ---------------------- calls and returns of a thread --------------- *)

\* Where a thread continues when fetch_market_data() returns to call site s.
AfterMarket(s) ==
  CASE s = "sbt" -> "fn_build"     \* app.py:466-467
    [] s = "bg"  -> "fn_build"     \* app.py:160-161
    [] s = "ns"  -> "fn_build"     \* app.py:346-347
    [] s = "idx" -> "idx_news"     \* app.py:308-309
    [] s = "ana" -> "ana_gate"     \* app.py:177-180
    [] OTHER     -> "idle"         \* app.py:376-377  (site "gmd")

\* AfterNews for an updater that makes one pass instead of looping.
AfterNewsOnePass(s) ==
  CASE s = "sbt" -> "sbt_thread"
    [] s = "ns"  -> "ana_entry"
    [] s = "idx" -> "ana_entry"
    [] OTHER     -> "idle"

\* Where a thread continues when fetch_economic_news() returns to call site s.
AfterNews(s) ==
  CASE s = "sbt" -> "sbt_thread"   \* app.py:467-470
    [] s = "bg"  -> "sleep"        \* app.py:161-162
    [] s = "ns"  -> "ana_entry"    \* app.py:347-349
    [] s = "idx" -> "ana_entry"    \* app.py:310-312
    [] OTHER     -> "idle"         \* app.py:382-383  (site "gen")

\* The thread record r continuing at pc; a handler that returns leaves no locals.
Continue(r, pc) == IF pc = "idle" THEN IdleThread ELSE [r EXCEPT !.pc = pc]

\* Executions of fetch_market_data / fetch_economic_news that have been entered
\* and have not returned.
InFetchMarket(t) == th[t].pc \in {"fm_wait", "fm_store"}

InFetchNews(t) == th[t].pc = "fn_build"

(* ------------------------- fetch_market_data ------------------------ *)

\* app.py:71-96.  ticker.history() answers: with rows (the update is built,
\* reading datetime.now()), with an empty frame, or with an exception (the
\* handler substitutes a price when none was ever set).
FetchMarketResponse(t) ==
  /\ th[t].pc = "fm_wait"
  /\ \/ \E q \in Quotes :
          /\ th' = [th EXCEPT ![t].pc = "fm_store",
                              ![t].upd = [current_price |-> q.close,
                                          volume        |-> q.volume,
                                          high_24h      |-> q.high,
                                          low_24h       |-> q.low,
                                          last_update   |-> clock]]
          /\ clock' = Tick(clock)
          /\ UNCHANGED market_data
     \/ /\ th' = [th EXCEPT ![t] = Continue(th[t], AfterMarket(th[t].site))]
        /\ UNCHANGED <<clock, market_data>>
     \/ \E p \in FallbackPrices :
          /\ market_data' = IF market_data.current_price = 0
                              THEN [market_data EXCEPT !.current_price = p]
                              ELSE market_data
          /\ th' = [th EXCEPT ![t] = Continue(th[t], AfterMarket(th[t].site))]
          /\ UNCHANGED clock
  /\ UNCHANGED <<background_thread_started, economic_news, trading_hours,
                 history, appended, quota,
                 others>>

\* app.py:82 market_data.update(...) with the dictionary built before: all
\* five keys are replaced.
FetchMarketStore(t) ==
  /\ th[t].pc = "fm_store"
  /\ market_data' = th[t].upd
  /\ th' = [th EXCEPT ![t] = Continue([th[t] EXCEPT !.upd = NoUpdate],
                                      AfterMarket(th[t].site))]
  /\ UNCHANGED <<background_thread_started, economic_news, trading_hours,
                 history, appended, clock, quota,
                 others>>

(* ------------------------ fetch_economic_news ----------------------- *)

\* app.py:106-125: the simulated list.  Hours ago of the two events whose
\* impact is drawn, and the impacts.  The third event is always "medium".
NewsDraws ==
  [ecb_hours : {1, 8}, ecb_impact : {"high", "medium"},
   nfp_hours : {2},    nfp_impact : {"high", "medium"}]

\* app.py:128-133: a high impact event less than 7200 seconds old.
HighImpact(d) ==
  \/ d.ecb_impact = "high" /\ d.ecb_hours * 3600 < 7200
  \/ d.nfp_impact = "high" /\ d.nfp_hours * 3600 < 7200

\* app.py:98-142: the list is drawn, high_impact computed from it, and
\* economic_news.update(...) stores it with datetime.now().  Everything before
\* the update works on locals.  The except branch (app.py:141) has nothing in
\* the try block that raises.
FetchNews(t) ==
  /\ th[t].pc = "fn_build"
  /\ \E d \in NewsDraws :
       economic_news' = [high_impact |-> HighImpact(d), last_update |-> clock]
  /\ clock' = Tick(clock)
  /\ th' = [th EXCEPT ![t] = Continue(th[t], AfterNews(th[t].site))]
  /\ UNCHANGED <<background_thread_started, market_data, trading_hours,
                 history, appended, quota,
                 others>>

(* ---------------------- background_data_updater --------------------- *)

\* app.py:159-162: time.sleep(60) returns and the loop calls fetch_market_data.
UpdaterWake(u) ==
  /\ u \in UpdaterThreads
  /\ th[u].pc = "sleep"
  /\ th' = [th EXCEPT ![u].pc = "fm_wait"]
  /\ UNCHANGED <<background_thread_started, market_data, economic_news,
                 trading_hours, history, appended, clock, quota,
                 others>>

\* A request is given to the first thread of the pool that is idle.
Dispatched(t) ==
  /\ t \in RequestThreads
  /\ th[t].pc = "idle"
  /\ \A u \in RequestThreads : u < t => th[u].pc # "idle"

\* The updater threads that have been created.
UpdatersCreated == {u \in UpdaterThreads : th[u].kind = "updater"}


(* ------------------------ is_trading_allowed ------------------------ *)

\* datetime.utcnow().hour (app.py:149): the first hour of the 9..17 window and
\* the first hour after it.
Hours == {9, 17}

\* app.py:144-155
IsTradingAllowed(hours, now, high_impact) ==
  IF ~hours.enabled THEN TRUE
  ELSE IF now >= hours.start /\ now < hours.end
         THEN ~high_impact
         ELSE FALSE

(* ------------------- analyze_signal, as threads see it -------------- *)
\* The steps of analyze_signal that read the shared dictionaries.  The random
\* draws and the arithmetic between the reads touch only locals; they are the
\* subject of the synthesis specification below.

\* app.py:176-177
AnalyzeEntry(t) ==
  /\ th[t].pc = "ana_entry"
  /\ th' = IF market_data.current_price = 0 \/ market_data.last_update = None
             THEN [th EXCEPT ![t].pc = "fm_wait", ![t].site = "ana"]
             ELSE [th EXCEPT ![t].pc = "ana_gate"]
  /\ UNCHANGED <<background_thread_started, market_data, economic_news,
                 trading_hours, history, appended, clock, quota,
                 others>>

\* app.py:180
AnalyzeGate(t) ==
  /\ th[t].pc = "ana_gate"
  /\ \E now \in Hours :
       th' = [th EXCEPT ![t].pc = "ana_flags",
                        ![t].trading_allowed =
                           IsTradingAllowed(trading_hours, now,
                                            economic_news.high_impact)]
  /\ UNCHANGED <<background_thread_started, market_data, economic_news,
                 trading_hours, history, appended, clock, quota,
                 others>>

\* app.py:183-199: the flags; "News Spike" is set when economic_news["high_impact"].
AnalyzeFlags(t) ==
  /\ th[t].pc = "ana_flags"
  /\ th' = [th EXCEPT ![t].pc = "ana_build",
                      ![t].news_spike = economic_news.high_impact]
  /\ UNCHANGED <<background_thread_started, market_data, economic_news,
                 trading_hours, history, appended, clock, quota,
                 others>>

\* app.py:273-294: the dictionary returned, has_high_impact_news read at line 291.
AnalyzeBuild(t) ==
  /\ th[t].pc = "ana_build"
  /\ th' = [th EXCEPT ![t].pc = "hist_append",
                      ![t].trading_allowed = FALSE,
                      ![t].news_spike = FALSE,
                      ![t].signal =
                         [made |-> TRUE,
                          trading_allowed |-> th[t].trading_allowed,
                          news_spike |-> th[t].news_spike,
                          has_high_impact_news |-> economic_news.high_impact]]
  /\ UNCHANGED <<background_thread_started, market_data, economic_news,
                 trading_hours, history, appended, clock, quota,
                 others>>

(* ----------------------- the in-memory history ---------------------- *)

\* What follows the history update in the handler the thread runs.
AfterHistory(kind) == IF kind = "index" THEN "idx_render" ELSE "ns_save"

\* app.py:315, app.py:352  history.append(signal)
HistoryAppend(t) ==
  /\ th[t].pc = "hist_append"
  /\ history' = Append(history, appended + 1)
  /\ appended' = appended + 1
  /\ th' = [th EXCEPT ![t].pc = "hist_check"]
  /\ UNCHANGED <<background_thread_started, market_data, economic_news,
                 trading_hours, clock, quota,
                 others>>

\* app.py:316, app.py:353  if len(history) > 10:
HistoryCheck(t) ==
  /\ th[t].pc = "hist_check"
  /\ th' = IF Len(history) > HistoryCapacity
             THEN [th EXCEPT ![t].pc = "hist_pop"]
             ELSE [th EXCEPT ![t].pc = AfterHistory(th[t].kind)]
  /\ UNCHANGED <<background_thread_started, market_data, economic_news,
                 trading_hours, history, appended, clock, quota,
                 others>>

\* app.py:317, app.py:354  history.pop(0)
HistoryPop(t) ==
  /\ th[t].pc = "hist_pop"
  /\ history' = Tail(history)
  /\ th' = [th EXCEPT ![t].pc = AfterHistory(th[t].kind)]
  /\ UNCHANGED <<background_thread_started, market_data, economic_news,
                 trading_hours, appended, clock, quota,
                 others>>

(* ------------------------------ GET / ------------------------------- *)

\* A request GET / arrives and is given to an idle thread.
BeginIndex(t) ==
  /\ Dispatched(t)
  /\ quota > 0
  /\ quota' = quota - 1
  /\ th' = [th EXCEPT ![t].kind = "index", ![t].pc = "idx_check"]
  /\ UNCHANGED <<background_thread_started, market_data, economic_news,
                 trading_hours, history, appended, clock,
                 others>>

\* app.py:302-303: if not background_thread_started: start_background_thread(),
\* which begins with fetch_market_data() (app.py:466).
IndexCheckStarted(t) ==
  /\ th[t].pc = "idx_check"
  /\ th' = IF ~background_thread_started
             THEN [th EXCEPT ![t].pc = "fm_wait", ![t].site = "sbt"]
             ELSE [th EXCEPT ![t].pc = "idx_md"]
  /\ UNCHANGED <<background_thread_started, market_data, economic_news,
                 trading_hours, history, appended, clock, quota,
                 others>>

\* app.py:470-472: Thread(target=background_data_updater).start()
StartBackgroundThread(t) ==
  /\ th[t].pc = "sbt_thread"
  /\ th' = [th EXCEPT ![t].pc = "idx_flag",
                      ![UpdaterOf(t)] = [IdleThread EXCEPT !.kind = "updater",
                                                           !.pc = "fm_wait",
                                                           !.site = "bg"]]
  /\ UNCHANGED <<background_thread_started, market_data, economic_news,
                 trading_hours, history, appended, clock, quota,
                 others>>

\* app.py:304: background_thread_started = True
IndexSetStarted(t) ==
  /\ th[t].pc = "idx_flag"
  /\ background_thread_started' = TRUE
  /\ th' = [th EXCEPT ![t].pc = "idx_md"]
  /\ UNCHANGED <<market_data, economic_news, trading_hours, history, appended,
                 clock, quota,
                 others>>

\* app.py:307-308
IndexEnsureMarket(t) ==
  /\ th[t].pc = "idx_md"
  /\ th' = IF market_data.last_update = None
             THEN [th EXCEPT ![t].pc = "fm_wait", ![t].site = "idx"]
             ELSE [th EXCEPT ![t].pc = "idx_news"]
  /\ UNCHANGED <<background_thread_started, market_data, economic_news,
                 trading_hours, history, appended, clock, quota,
                 others>>

\* app.py:309-312
IndexEnsureNews(t) ==
  /\ th[t].pc = "idx_news"
  /\ th' = IF economic_news.last_update = None
             THEN [th EXCEPT ![t].pc = "fn_build", ![t].site = "idx"]
             ELSE [th EXCEPT ![t].pc = "ana_entry"]
  /\ UNCHANGED <<background_thread_started, market_data, economic_news,
                 trading_hours, history, appended, clock, quota,
                 others>>

\* app.py:320-340: the statistics are read and the page is rendered.
IndexRender(t) ==
  /\ th[t].pc = "idx_render"
  /\ th' = [th EXCEPT ![t] = IdleThread]
  /\ UNCHANGED <<background_thread_started, market_data, economic_news,
                 trading_hours, history, appended, clock, quota,
                 others>>

(* ------------------- database.py: engine and retry ------------------ *)

\* What DATABASE_URL can name (database.py:11-15): a PostgreSQL server, or
\* SQLite (the default when the variable is not set).
Urls == {"postgresql", "sqlite"}

\* CreateEngineAttempt with the test of database.py:56 off by one: it sleeps
\* after the last attempt too, and the loop then ends without an engine.
CreateEngineAttemptSleepsLast(b, connected) ==
  IF connected
    THEN [b EXCEPT !.pc = "init_db", !.attempts = @ + 1, !.result = "url"]
    ELSE IF b.retry_count + 1 <= EngineMaxRetries
           THEN [b EXCEPT !.pc = "engine_sleep", !.attempts = @ + 1,
                          !.retry_count = @ + 1]
           ELSE [b EXCEPT !.pc = "init_db", !.attempts = @ + 1,
                          !.retry_count = @ + 1, !.result = "fallback"]

\* database.py:22-63, one pass of the while loop: the connection attempt of
\* database.py:36-49 succeeds (connected) or raises.
CreateEngineAttempt(b, connected) ==
  IF connected
    THEN [b EXCEPT !.pc = "init_db", !.attempts = @ + 1, !.result = "url"]
    ELSE IF b.retry_count + 1 < EngineMaxRetries
           THEN [b EXCEPT !.pc = "engine_sleep", !.attempts = @ + 1,
                          !.retry_count = @ + 1]
           ELSE [b EXCEPT !.pc = "init_db", !.attempts = @ + 1,
                          !.retry_count = @ + 1, !.result = "fallback"]

CreateEngineTry ==
  /\ boot.pc = "engine_try"
  /\ \E connected \in BOOLEAN :
       /\ boot' = IF boot.retry_count < EngineMaxRetries
                    THEN CreateEngineAttempt(boot, connected)
                    ELSE [boot EXCEPT !.pc = "init_db", !.result = "None"]
       /\ engine' = boot'.result
  /\ UNCHANGED <<DATABASE_URL, tables_created, tables, outage, last, appVars, analysis, reply>>

\* database.py:58  time.sleep(retry_interval)
CreateEngineSleep ==
  /\ boot.pc = "engine_sleep"
  /\ boot' = [boot EXCEPT !.pc = "engine_try", !.sleeps = @ + 1]
  /\ UNCHANGED <<DATABASE_URL, engine, tables_created, tables, outage, last,
                 appVars, analysis, reply>>

\* A database call raises OperationalError while the outage lasts, and when
\* the tables were never created ("no such table").
Unavailable(out, created) == out > 0 \/ ~created

\* database.py:71-88 db_operation: the loop, run with `out` failing calls still
\* to come.  The operation itself succeeds whenever the call goes through.
RECURSIVE DbOperation(_, _, _)
DbOperation(retry_count, out, sleeps) ==
  IF retry_count < OperationMaxRetries
    THEN IF out = 0
           THEN [ok |-> TRUE, attempts |-> retry_count + 1, sleeps |-> sleeps,
                 outage |-> out]
           ELSE DbOperation(retry_count + 1, out - 1,
                            IF retry_count + 1 < OperationMaxRetries
                              THEN sleeps + 1 ELSE sleeps)
    ELSE [ok |-> FALSE, attempts |-> retry_count, sleeps |-> sleeps,
          outage |-> out]

\* The record kept of a gateway call that has returned.
Returned(op, ret, failed, transient, attempts, raised) ==
  [op |-> op, ret |-> ret, failed |-> failed, transient |-> transient,
   attempts |-> attempts, raised |-> raised]

NoCall == Returned("none", None, FALSE, FALSE, 0, FALSE)

\* database.py:91-101 init_db, called at app.py:23.
InitDb ==
  /\ boot.pc = "init_db"
  /\ LET r == DbOperation(0, outage, 0) IN
       /\ tables_created' = r.ok
       /\ outage' = r.outage
       /\ last' = Returned("init_db", None, ~r.ok, outage > 0, r.attempts, FALSE)
  /\ boot' = [boot EXCEPT !.pc = "serving"]
  /\ UNCHANGED <<DATABASE_URL, engine, tables, appVars, analysis, reply>>

(* ---------------------- database.py: the gateway -------------------- *)

\* PostgreSQL checks the foreign key signal_results.signal_id (models.py:56);
\* SQLite, as the engine is configured, does not.
ForeignKeysChecked == engine = "url" /\ DATABASE_URL = "postgresql"

\* The primary key the database gives the next row of a table.
NextId(table) == Len(table) + 1

Ids(table) == {table[i].id : i \in 1..Len(table)}

\* session.add(row); session.commit() (database.py:129-130, 179-180, 202-203):
\* what the table holds when the commit returns or raises.  A commit that
\* raises leaves the row in the session's open transaction.
Commit(table, row, raises) ==
  IF raises
    THEN [rows |-> table, pending |-> <<row>>]
    ELSE [rows |-> Append(table, row), pending |-> <<>>]

\* session.rollback() (database.py:134, 184, 207): the open transaction is
\* dropped.
Rollback(txn) == [rows |-> txn.rows, pending |-> <<>>]

\* session.close() (database.py:138, 188, 211): the connection goes back to the
\* pool, and what is committed stays.
Close(txn) == txn.rows

\* Except with the exception raised again after the rollback.
ExceptReraise(op, txn, committed, transient) ==
  [rows |-> Close(Rollback(txn)),
   call |-> Returned(op, None, ~committed, transient, 1, TRUE)]

\* The except branch (database.py:133-136, 183-186, 206-209): roll back and
\* return None.  `committed` tells a commit that raised from the reload of the
\* row's id after a commit that went through (database.py:131, 181, 204).
Except(op, txn, committed, transient) ==
  [rows |-> Close(Rollback(txn)),
   call |-> Returned(op, None, ~committed, transient, 1, FALSE)]

\* The body shared by save_signal, save_signal_result and save_market_snapshot
\* (database.py:104-138, 167-188, 191-211): try add and commit; except rollback
\* and return None; finally close.  The sessionmaker expires the row on commit,
\* so reading row.id for the log line is one more database call, which raises
\* when the connection is lost in between.
Write(op, table, row, valid, out, created, lost) ==
  LET raises == Unavailable(out, created) \/ ~valid
      txn    == Commit(table, row, raises)
      r      == IF raises THEN Except(op, txn, FALSE, out > 0)
                ELSE IF lost THEN Except(op, txn, TRUE, TRUE)
                ELSE [rows |-> Close(txn),
                      call |-> Returned(op, row.id, FALSE, FALSE, 1, FALSE)]
  IN [rows   |-> r.rows,
      outage |-> IF out > 0 THEN out - 1 ELSE out,
      call   |-> r.call]

\* database.py:104-138: of the signal's columns the row keeps high_impact_news
\* (database.py:126).
SaveSignal(signal, lost) ==
  LET w == Write("save_signal", signals,
                 [id |-> NextId(signals),
                  high_impact_news |-> signal.has_high_impact_news],
                 TRUE, outage, tables_created, lost)
  IN /\ signals' = w.rows
     /\ outage' = w.outage
     /\ last' = w.call
     /\ UNCHANGED <<bootVars, signal_results, market_snapshots>>

\* The outcomes an operator reports (models.py:57).
Outcomes == {"WIN", "LOSS", "NEUTRAL"}

\* database.py:167-188
SaveSignalResult(signal_id, result, lost) ==
  LET w == Write("save_signal_result", signal_results,
                 [id |-> NextId(signal_results), signal_id |-> signal_id,
                  result |-> result],
                 ForeignKeysChecked => signal_id \in Ids(signals),
                 outage, tables_created, lost)
  IN /\ signal_results' = w.rows
     /\ outage' = w.outage
     /\ last' = w.call
     /\ UNCHANGED <<bootVars, signals, market_snapshots>>

\* database.py:191-211
SaveMarketSnapshot(md, lost) ==
  LET w == Write("save_market_snapshot", market_snapshots,
                 [id |-> NextId(market_snapshots), price |-> md.current_price],
                 TRUE, outage, tables_created, lost)
  IN /\ market_snapshots' = w.rows
     /\ outage' = w.outage
     /\ last' = w.call
     /\ UNCHANGED <<bootVars, signals, signal_results>>

\* database.py:152-164
GetSignalById(signal_id) ==
  LET raises == Unavailable(outage, tables_created) IN
    /\ last' = Returned("get_signal_by_id",
                        IF ~raises /\ signal_id \in Ids(signals)
                          THEN signal_id ELSE None,
                        raises, outage > 0, 1, FALSE)
    /\ outage' = IF outage > 0 THEN outage - 1 ELSE outage
    /\ UNCHANGED <<bootVars, tables>>

\* database.py:140-150: the number of signals in the list returned.
GetSignals(limit) ==
  LET raises == Unavailable(outage, tables_created) IN
    /\ last' = Returned("get_signals",
                        IF raises THEN 0 ELSE Min(limit, Len(signals)),
                        raises, outage > 0, 1, FALSE)
    /\ outage' = IF outage > 0 THEN outage - 1 ELSE outage
    /\ UNCHANGED <<bootVars, tables>>

\* database.py:238  (wins / signals_with_results) * 100 if signals_with_results
\* > 0 else 0, and round(win_rate, 2) of database.py:249: in hundredths.
WinRate(wins, signals_with_results) ==
  IF signals_with_results > 0
    THEN (2 * 10000 * wins + signals_with_results)
           \div (2 * signals_with_results)
    ELSE 0

\* session.query(SignalResult).filter(SignalResult.result == r).count()
CountResults(r) ==
  Cardinality({i \in 1..Len(signal_results) : signal_results[i].result = r})

\* database.py:226-266: the counts are taken of the rows of the two tables;
\* any exception gives the all-zero dictionary.  avg_pips_gained is left out,
\* as is the column it averages.
GetSignalStatistics ==
  LET raises == Unavailable(outage, tables_created)
      stats  == IF raises
                  THEN [total_signals |-> 0, signals_with_results |-> 0,
                        wins |-> 0, losses |-> 0, win_rate |-> 0]
                  ELSE [total_signals        |-> Len(signals),
                        signals_with_results |-> Len(signal_results),
                        wins                 |-> CountResults("WIN"),
                        losses               |-> CountResults("LOSS"),
                        win_rate |-> WinRate(CountResults("WIN"),
                                             Len(signal_results))]
  IN /\ last' = Returned("get_signal_statistics", stats, raises, outage > 0,
                         1, FALSE)
     /\ outage' = IF outage > 0 THEN outage - 1 ELSE outage
     /\ UNCHANGED <<bootVars, tables>>

(* ----------------------- the API's handlers ------------------------ *)

\* GET /api/new-signal arrives: app.py:346 fetch_market_data()
BeginNewSignal(t) ==
  /\ Dispatched(t)
  /\ quota > 0
  /\ quota' = quota - 1
  /\ th' = [th EXCEPT ![t].kind = "new_signal", ![t].pc = "fm_wait",
                      ![t].site = "ns"]
  /\ UNCHANGED <<background_thread_started, market_data, economic_news,
                 trading_hours, history, appended, clock,
                 others>>

\* app.py:357-363  db.save_signal(signal)
NewSignalSave(t) ==
  /\ th[t].pc = "ns_save"
  /\ \E lost \in BOOLEAN : SaveSignal(th[t].signal, lost)
  /\ th' = [th EXCEPT ![t].pc = "ns_snapshot"]
  /\ UNCHANGED <<background_thread_started, market_data, economic_news,
                 trading_hours, history, appended, clock, quota, analysis, reply>>

\* app.py:366-371  db.save_market_snapshot(market_data); return jsonify(signal)
NewSignalSnapshot(t) ==
  /\ th[t].pc = "ns_snapshot"
  /\ \E lost \in BOOLEAN : SaveMarketSnapshot(market_data, lost)
  /\ th' = [th EXCEPT ![t] = IdleThread]
  /\ UNCHANGED <<background_thread_started, market_data, economic_news,
                 trading_hours, history, appended, clock, quota, analysis, reply>>

\* GET /api/market-data arrives: app.py:376 fetch_market_data()
BeginMarketData(t) ==
  /\ Dispatched(t)
  /\ quota > 0
  /\ quota' = quota - 1
  /\ th' = [th EXCEPT ![t].kind = "get_market_data", ![t].pc = "fm_wait",
                      ![t].site = "gmd"]
  /\ UNCHANGED <<background_thread_started, market_data, economic_news,
                 trading_hours, history, appended, clock,
                 others>>

\* GET /api/economic-news arrives: app.py:382 fetch_economic_news()
BeginEconomicNews(t) ==
  /\ Dispatched(t)
  /\ quota > 0
  /\ quota' = quota - 1
  /\ th' = [th EXCEPT ![t].kind = "get_economic_news", ![t].pc = "fn_build",
                      ![t].site = "gen"]
  /\ UNCHANGED <<background_thread_started, market_data, economic_news,
                 trading_hours, history, appended, clock,
                 others>>

\* POST /api/signal/<id>/result (app.py:431-461): a body without "result" or
\* "exit_price" is answered 400 and nothing is saved.
AddSignalResult(signal_id, body, lost) ==
  IF body.has_result /\ body.has_exit_price
    THEN SaveSignalResult(signal_id, body.result, lost)
    ELSE UNCHANGED dbVars

(* -------------------- analyze_signal, the synthesis ------------------ *)
\* analyze_signal as one sequential call: the flags, the weighted tally, the
\* gate, and the figures derived from the probability.  Prices are in units
\* of 0.00001, the precision of round(x, 5); the risk/reward ratio is in
\* tenths, the precision of round(x, 1).

\* app.py:56-67
Indicators ==
  {"EMA Crossover", "MACD", "RSI Divergence", "Liquidity Sweep", "VWAP Bounce",
   "Breakout", "Order Block", "Volume Confirmation", "Fibonacci Retracement",
   "Bollinger Bands"}

\* app.py:204-206: the indicators counted three times in the tally.
Weighted == {"EMA Crossover", "MACD", "Volume Confirmation"}

\* app.py:192 random.choice([0, 1]) for each indicator.  The six indicators
\* that nothing but the tally reads are drawn as k ones followed by zeros.
Unweighted ==
  <<"Liquidity Sweep", "VWAP Bounce", "Breakout", "Order Block",
    "Fibonacci Retracement", "Bollinger Bands">>

FlagDraws ==
  {[n \in Indicators |->
      IF n \in {"EMA Crossover", "MACD", "RSI Divergence", "Volume Confirmation"}
        THEN c[n]
        ELSE IF \E i \in 1..k : Unweighted[i] = n THEN 1 ELSE 0] :
     c \in [{"EMA Crossover", "MACD", "RSI Divergence", "Volume Confirmation"}
              -> {0, 1}],
     k \in 0..Len(Unweighted)}

\* app.py:183-199
Strategies(flags, market, high_impact) ==
  LET drawn == [n \in Indicators |->
                  IF n = "Volume Confirmation" /\ market.volume > 0
                    THEN IF market.volume > 1000000 THEN 1 ELSE 0
                    ELSE flags[n]]
  IN IF high_impact
       THEN [n \in Indicators \cup {"News Spike"} |->
               CASE n = "News Spike" -> 1
                 [] n \in {"EMA Crossover", "RSI Divergence"} -> 0
                 [] OTHER -> drawn[n]]
       ELSE drawn

RECURSIVE Sum(_, _)
Sum(f, S) ==
  IF S = {} THEN 0
  ELSE LET n == CHOOSE x \in S : TRUE IN f[n] + Sum(f, S \ {n})

\* app.py:202-210: int((active_signals / total_signals) * 100)
WeightedProbability(strategies) ==
  LET active_signals == Sum(strategies, DOMAIN strategies)
                          + 2 * Sum(strategies, Weighted)
      total_signals  == Cardinality(DOMAIN strategies)
                          + 2 * Cardinality(Weighted)
  IN (100 * active_signals) \div total_signals

\* app.py:213-214 with the floor left out.
GateProbabilityUnfloored(probability, trading_allowed) ==
  IF ~trading_allowed THEN probability \div 2 ELSE probability

\* app.py:213-214
GateProbability(probability, trading_allowed) ==
  IF ~trading_allowed THEN Max(10, probability \div 2) ELSE probability

\* app.py:217-233: r is random.random() in hundredths.
Direction(market, r) ==
  LET daily_range == market.high_24h - market.low_24h
      position    == market.current_price - market.low_24h
  IN IF market.current_price > 0 /\ daily_range > 0
       THEN IF 100 * position < 33 * daily_range
              THEN IF r > 30 THEN "LONG" ELSE "SHORT"
            ELSE IF 100 * position > 66 * daily_range
              THEN IF r > 30 THEN "SHORT" ELSE "LONG"
            ELSE IF r > 50 THEN "LONG" ELSE "SHORT"
       ELSE IF r > 50 THEN "LONG" ELSE "SHORT"

\* app.py:237-245: int(base_duration * probability / 50), halved under news,
\* then max(5, min(45, duration)).
Duration(base_duration, probability, high_impact) ==
  LET duration == IF high_impact
                    THEN (base_duration * probability) \div 100
                    ELSE (base_duration * probability) \div 50
  IN Max(5, Min(45, duration))

\* app.py:248  round(1 + (probability / 100) * 2, 1), in tenths.
RiskReward(probability) == 10 + (2 * probability + 5) \div 10

\* app.py:257 with the random.randint(5, 15) left out.
PipsMovementUndrawn(probability, draw) == probability \div 10

\* app.py:257
PipsMovement(probability, draw) == probability \div 10 + draw

\* app.py:263, 267: pip_value * (pips_movement / risk_reward) rounded to five
\* places with the price.  When the quotient lies half way between two units
\* the floating point result decides; tie_up is that outcome.
StopDistance(pips_movement, risk_reward, tie_up) ==
  LET q == (100 * pips_movement) \div risk_reward
      r == (100 * pips_movement) % risk_reward
  IN IF 2 * r > risk_reward \/ (2 * r = risk_reward /\ tie_up)
       THEN q + 1 ELSE q

\* app.py:164-171
CalculateSignalStrength(probability) ==
  IF probability >= 75 THEN <<"strong", "success">>
  ELSE IF probability >= 50 THEN <<"moderate", "warning">>
  ELSE <<"weak", "danger">>

\* The random draws of one call: app.py:192, 225-233, 237, 252, 257, and the
\* rounding outcome of app.py:263/267.
Draws(market) ==
  [flags         : FlagDraws,
   direction     : {10, 40, 90},
   base_duration : {5, 15},
   pips          : 5..15,
   entry         : IF market.current_price = 0 THEN {107000, 108000} ELSE {0},
   tie_up        : BOOLEAN]

\* app.py:180-292: the signal built from the dictionaries as they are after
\* app.py:177, the hour datetime.utcnow() gives, and the draws.
AnalyzeSignal(market, news, hours, now, draw) ==
  LET trading_allowed == IsTradingAllowed(hours, now, news.high_impact)
      strategies      == Strategies(draw.flags, market, news.high_impact)
      probability     == GateProbability(WeightedProbability(strategies),
                                         trading_allowed)
      direction       == Direction(market, draw.direction)
      risk_reward     == RiskReward(probability)
      current_price   == IF market.current_price = 0
                           THEN draw.entry ELSE market.current_price
      pips_movement   == PipsMovement(probability, draw.pips)
      stop            == StopDistance(pips_movement, risk_reward, draw.tie_up)
      strength        == CalculateSignalStrength(probability)
  IN [made                 |-> TRUE,
      strategies           |-> strategies,
      probability          |-> probability,
      direction            |-> direction,
      duration             |-> Duration(draw.base_duration, probability,
                                        news.high_impact),
      risk_reward          |-> risk_reward,
      current_price        |-> current_price,
      entry_price          |-> current_price,
      target_price         |-> IF direction = "LONG"
                                 THEN current_price + 10 * pips_movement
                                 ELSE current_price - 10 * pips_movement,
      stop_loss            |-> IF direction = "LONG"
                                 THEN current_price - stop
                                 ELSE current_price + stop,
      pips_target          |-> pips_movement,
      strength_class       |-> strength[1],
      strength_color       |-> strength[2],
      trading_allowed      |-> trading_allowed,
      volume               |-> market.volume,
      high_24h             |-> market.high_24h,
      low_24h              |-> market.low_24h,
      has_high_impact_news |-> news.high_impact]

NoAnalysis == [made |-> FALSE, now |-> 0, signal |-> NoSignal]

\* app.py:176-177: market_data after the fetch analyze_signal makes when no
\* price is there: the quote stored, nothing (no rows), or the fallback price
\* of the except branch.  With a price and a last_update there is no fetch.
Ensured(market) ==
  IF market.current_price = 0 \/ market.last_update = None
    THEN {[current_price |-> q.close, volume |-> q.volume,
           high_24h |-> q.high, low_24h |-> q.low, last_update |-> clock] :
            q \in Quotes}
         \cup {market}
         \cup {IF market.current_price = 0
                 THEN [market EXCEPT !.current_price = p] ELSE market :
                 p \in FallbackPrices}
    ELSE {market}

\* One call of analyze_signal, with nothing else running.
CallAnalyzeSignal ==
  /\ ~analysis.made
  /\ \E market \in Ensured(market_data) :
       /\ market_data' = market
       /\ clock' = IF market.last_update # market_data.last_update
                     THEN Tick(clock) ELSE clock
       /\ \E now \in Hours, draw \in Draws(market) :
            analysis' = [made |-> TRUE, now |-> now,
                         signal |-> AnalyzeSignal(market, economic_news,
                                                  trading_hours, now, draw)]
  /\ UNCHANGED <<background_thread_started, economic_news, trading_hours,
                 history, appended, th, quota, dbVars, reply>>

(* -------------------------- update_settings ------------------------- *)

\* The answers of POST /api/settings (app.py:400-406).
NoReply == [sent |-> FALSE, success |-> FALSE]

Reply(success) == [sent |-> TRUE, success |-> success]

\* A JSON value sent as start or end: a number, a string of digits, a string
\* that is no number, or null.
JsonValues ==
  [kind : {"number", "digits"}, v : {-1, 0, 9, 23, 24, 25}]
    \cup [kind : {"text", "null"}, v : {0}]

\* int(x) (app.py:397, 399): the value of a number or of a string of digits;
\* ValueError for any other string, TypeError for null.
ToInt(x) ==
  IF x.kind \in {"number", "digits"}
    THEN [raised |-> FALSE, v |-> x.v]
    ELSE [raised |-> TRUE, v |-> 0]

\* The bodies: one that is not JSON, JSON without a trading_hours object, and
\* a trading_hours object with any of enabled, start and end.  enabled is the
\* bool() of the value sent.
SettingsBodies ==
  [kind : {"not_json", "no_hours"}, has_enabled : {FALSE}, enabled : {FALSE},
   has_start : {FALSE}, start : {[kind |-> "null", v |-> 0]},
   has_end : {FALSE}, end : {[kind |-> "null", v |-> 0]}]
    \cup [kind : {"hours"}, has_enabled : BOOLEAN, enabled : BOOLEAN,
          has_start : BOOLEAN, start : JsonValues,
          has_end : BOOLEAN, end : JsonValues]

\* app.py:393-399: the fields are assigned one after the other, and an
\* exception leaves the assignments made before it.
Merge(hours, body) ==
  LET e == IF body.has_enabled
             THEN [hours EXCEPT !.enabled = body.enabled] ELSE hours
      a == ToInt(body.start)
      b == ToInt(body.end)
  IN IF body.has_start /\ a.raised THEN [hours |-> e, raised |-> TRUE]
     ELSE LET f == IF body.has_start THEN [e EXCEPT !.start = a.v] ELSE e
          IN IF body.has_end /\ b.raised THEN [hours |-> f, raised |-> TRUE]
             ELSE [hours  |-> IF body.has_end THEN [f EXCEPT !.end = b.v]
                              ELSE f,
                   raised |-> FALSE]

\* POST /api/settings (app.py:385-406)
UpdateSettings(body) ==
  /\ LET r == CASE body.kind = "not_json" ->
                   [hours |-> trading_hours, raised |-> TRUE]
                [] body.kind = "no_hours" ->
                   [hours |-> trading_hours, raised |-> FALSE]
                [] OTHER -> Merge(trading_hours, body)
     IN /\ trading_hours' = r.hours
        /\ reply' = Reply(~r.raised)
  /\ UNCHANGED <<background_thread_started, market_data, economic_news,
                 history, appended, th, clock, quota, dbVars, analysis>>

(* ------------------------- initial states --------------------------- *)

\* The state after the module is imported (app.py:30-53, app.py:476).
InitApp ==
  /\ background_thread_started = FALSE
  /\ market_data = NoUpdate
  /\ economic_news = [high_impact |-> FALSE, last_update |-> None]
  /\ trading_hours = [start |-> 0, end |-> 24, enabled |-> FALSE]
  /\ history = <<>>
  /\ appended = 0
  /\ th = [t \in Threads |-> IdleThread]
  /\ clock = 0
  /\ analysis = NoAnalysis
  /\ reply = NoReply

\* database.py and app.py have been imported: the engine exists and init_db
\* has returned, having created the tables or not (app.py:22-27 goes on either
\* way).
Serving(created) ==
  /\ DATABASE_URL = "sqlite"
  /\ boot = [pc |-> "serving", retry_count |-> 0, attempts |-> 1, sleeps |-> 0,
             result |-> "url"]
  /\ engine = "url"
  /\ tables_created = created
  /\ signals = <<>>
  /\ signal_results = <<>>
  /\ market_snapshots = <<>>
  /\ outage = 0
  /\ last = NoCall

\* The process has answered HistoryCapacity requests GET /api/new-signal, one
\* after the other, and no GET / yet: the history is full, both dictionaries
\* have been fetched, and no updater thread was started.
InitFullHistory ==
  /\ background_thread_started = FALSE
  /\ \E q \in Quotes :
       market_data = [current_price |-> q.close, volume |-> q.volume,
                      high_24h |-> q.high, low_24h |-> q.low,
                      last_update |-> MaxClock]
  /\ \E high_impact \in BOOLEAN :
       economic_news = [high_impact |-> high_impact, last_update |-> MaxClock]
  /\ trading_hours = [start |-> 0, end |-> 24, enabled |-> FALSE]
  /\ history = [i \in 1..HistoryCapacity |-> i]
  /\ appended = HistoryCapacity
  /\ th = [t \in Threads |-> IdleThread]
  /\ clock = MaxClock
  /\ analysis = NoAnalysis
  /\ reply = NoReply

(* --------------------------- the dashboard -------------------------- *)

\* The first requests GET / arrive at a process that has just started, or at
\* one that has only served the API so far.  Its tables were not created.
Init ==
  /\ InitApp \/ InitFullHistory
  /\ quota = MaxDashboardRequests
  /\ Serving(FALSE)

\* The steps every thread that fetches or synthesises can take.
Fetch(t) ==
  \/ FetchMarketResponse(t)
  \/ FetchMarketStore(t)
  \/ FetchNews(t)

Synthesize(t) ==
  \/ AnalyzeEntry(t)
  \/ AnalyzeGate(t)
  \/ AnalyzeFlags(t)
  \/ AnalyzeBuild(t)
  \/ HistoryAppend(t)
  \/ HistoryCheck(t)
  \/ HistoryPop(t)

Index(t) ==
  \/ BeginIndex(t)
  \/ IndexCheckStarted(t)
  \/ StartBackgroundThread(t)
  \/ IndexSetStarted(t)
  \/ IndexEnsureMarket(t)
  \/ IndexEnsureNews(t)
  \/ IndexRender(t)

\* Requests GET / on concurrent threads, and the updater threads they start.
Next ==
  \/ \E t \in Threads : Fetch(t)
  \/ \E t \in RequestThreads : Synthesize(t) \/ Index(t)
  \/ \E u \in UpdaterThreads : UpdaterWake(u)

Spec == Init /\ [][Next]_vars

(* ------------------------------ the API ----------------------------- *)

\* The API is served by a process whose database tables could not be created.
InitApi ==
  /\ InitApp
  /\ quota = MaxApiRequests
  /\ Serving(FALSE)

NewSignal(t) ==
  \/ BeginNewSignal(t)
  \/ NewSignalSave(t)
  \/ NewSignalSnapshot(t)

\* Requests GET /api/new-signal, /api/market-data and /api/economic-news on
\* concurrent threads.  No GET / is served, so no updater thread is started.
NextApi ==
  \E t \in RequestThreads :
    \/ Fetch(t)
    \/ Synthesize(t)
    \/ NewSignal(t)
    \/ BeginMarketData(t)
    \/ BeginEconomicNews(t)

SpecApi == InitApi /\ [][NextApi]_vars

(* ------------------------ the persistence gateway ------------------- *)

\* The process starts: database.py:66 creates the engine, app.py:23 calls
\* init_db, and from then on the gateway's operations are called.
InitGateway ==
  /\ InitApp
  /\ quota = 0
  /\ DATABASE_URL \in Urls
  /\ boot = [pc |-> "engine_try", retry_count |-> 0, attempts |-> 0,
             sleeps |-> 0, result |-> "unset"]
  /\ engine = "unset"
  /\ tables_created = FALSE
  /\ signals = <<>>
  /\ signal_results = <<>>
  /\ market_snapshots = <<>>
  /\ outage \in 0..MaxOutage
  /\ last = NoCall

\* The database becomes unreachable for the next k calls.
DbOutage ==
  /\ outage = 0
  /\ \E k \in 1..MaxOutage : outage' = k
  /\ UNCHANGED <<bootVars, tables, last, appVars, analysis, reply>>

\* The bodies POST /api/signal/<id>/result is sent: complete ones, and ones
\* that lack a required field.
Bodies ==
  [has_result : {TRUE}, has_exit_price : {TRUE}, result : Outcomes]
    \cup [has_result : BOOLEAN, has_exit_price : BOOLEAN, result : {"WIN"}]

\* The signal ids a caller asks for: those of the rows the tables can hold.
SignalIds == 1..MaxRows

\* The gateway's operations as the handlers call them once the process
\* serves.  A table that holds MaxRows rows is not written to.
CallSaveSignal ==
  /\ boot.pc = "serving"
  /\ Len(signals) < MaxRows
  /\ \E news \in BOOLEAN, lost \in BOOLEAN :
       SaveSignal([NoSignal EXCEPT !.made = TRUE,
                                   !.has_high_impact_news = news], lost)
  /\ UNCHANGED <<appVars, analysis, reply>>

PostSignalResult ==
  /\ boot.pc = "serving"
  /\ Len(signal_results) < MaxRows
  /\ \E id \in SignalIds, body \in Bodies, lost \in BOOLEAN :
       AddSignalResult(id, body, lost)
  /\ UNCHANGED <<appVars, analysis, reply>>

CallSaveMarketSnapshot ==
  /\ boot.pc = "serving"
  /\ Len(market_snapshots) < MaxRows
  /\ \E lost \in BOOLEAN : SaveMarketSnapshot(market_data, lost)
  /\ UNCHANGED <<appVars, analysis, reply>>

CallGetSignalById ==
  /\ boot.pc = "serving"
  /\ \E id \in SignalIds : GetSignalById(id)
  /\ UNCHANGED <<appVars, analysis, reply>>

CallGetSignals ==
  /\ boot.pc = "serving"
  /\ \E limit \in {1, 10} : GetSignals(limit)
  /\ UNCHANGED <<appVars, analysis, reply>>

CallGetSignalStatistics ==
  /\ boot.pc = "serving"
  /\ GetSignalStatistics
  /\ UNCHANGED <<appVars, analysis, reply>>

NextGateway ==
  \/ CreateEngineTry
  \/ CreateEngineSleep
  \/ InitDb
  \/ DbOutage
  \/ CallSaveSignal
  \/ PostSignalResult
  \/ CallSaveMarketSnapshot
  \/ CallGetSignalById
  \/ CallGetSignals
  \/ CallGetSignalStatistics

SpecGateway == InitGateway /\ [][NextGateway]_vars

(* --------------------------- the synthesis -------------------------- *)

\* The quotes market_data can hold when analyze_signal is called: the price in
\* the lower, the middle and the upper third of the day's range, a day without
\* range, and the volumes on both sides of the confirmation threshold.
Markets ==
  [current_price : {108100, 108500, 108900}, volume : {2000000},
   high_24h : {109000}, low_24h : {108000}, last_update : {MaxClock}]
    \cup [current_price : {108500}, volume : {0, 1000000},
          high_24h : {109000}, low_24h : {108000}, last_update : {MaxClock}]
    \cup [current_price : {108500}, volume : {2000000},
          high_24h : {108500}, low_24h : {108500}, last_update : {MaxClock}]

\* The trading windows POST /api/settings has left (app.py:385-406).
Windows ==
  {[start |-> 0, end |-> 24, enabled |-> FALSE],
   [start |-> 0, end |-> 24, enabled |-> TRUE],
   [start |-> 9, end |-> 17, enabled |-> TRUE]}

\* analyze_signal is called on the dictionaries in any state the fetches and
\* the settings can have left them in.
InitSynth ==
  /\ background_thread_started = FALSE
  /\ market_data \in Markets \cup {NoUpdate}
  /\ \E high_impact \in BOOLEAN :
       economic_news = [high_impact |-> high_impact, last_update |-> MaxClock]
  /\ trading_hours \in Windows
  /\ history = <<>>
  /\ appended = 0
  /\ th = [t \in Threads |-> IdleThread]
  /\ clock = MaxClock
  /\ quota = 0
  /\ Serving(FALSE)
  /\ analysis = NoAnalysis
  /\ reply = NoReply

NextSynth == CallAnalyzeSignal

SpecSynth == InitSynth /\ [][NextSynth]_vars

(* -------------------------- the refresh loop ------------------------ *)

\* The updater thread the first GET / has started.
LoopUpdater == UpdaterOf(1)

\* index has returned from its first request: the two dictionaries were
\* fetched or not, the flag is set, and the updater thread is at the top of
\* its loop (app.py:159-160).
InitLoop ==
  /\ background_thread_started = TRUE
  /\ market_data = NoUpdate
  /\ economic_news = [high_impact |-> FALSE, last_update |-> None]
  /\ trading_hours = [start |-> 0, end |-> 24, enabled |-> FALSE]
  /\ history = <<>>
  /\ appended = 0
  /\ th = [t \in Threads |->
             IF t = LoopUpdater
               THEN [IdleThread EXCEPT !.kind = "updater", !.pc = "fm_wait",
                                       !.site = "bg"]
               ELSE IdleThread]
  /\ clock = 0
  /\ quota = MaxLoopRequests
  /\ Serving(FALSE)
  /\ analysis = NoAnalysis
  /\ reply = NoReply

\* The updater's cycles, and requests GET /api/market-data and
\* /api/economic-news that fetch on their own threads meanwhile.
NextLoop ==
  \/ \E t \in Threads : Fetch(t)
  \/ \E u \in UpdaterThreads : UpdaterWake(u)
  \/ \E t \in RequestThreads : BeginMarketData(t) \/ BeginEconomicNews(t)

\* The updater thread is scheduled again and again, the quote request returns
\* or raises, and time.sleep(60) returns.
SpecLoop ==
  /\ InitLoop
  /\ [][NextLoop]_vars
  /\ \A u \in UpdaterThreads : WF_vars(Fetch(u) \/ UpdaterWake(u))

(* ---------------------------- the settings -------------------------- *)

\* Requests POST /api/settings, one after the other, at a process that has
\* just started.
InitSettings ==
  /\ InitApp
  /\ quota = 0
  /\ Serving(FALSE)

NextSettings == \E body \in SettingsBodies : UpdateSettings(body)

SpecSettings == InitSettings /\ [][NextSettings]_vars

(* --------------------- signals and their snapshots ------------------ *)

\* The tables were created at start, the database then was unreachable while
\* HistoryCapacity requests GET /api/new-signal were answered, and is reachable
\* again: the history is full and the tables are empty.
InitPersist ==
  /\ InitFullHistory
  /\ quota = MaxPersistRequests
  /\ Serving(TRUE)

\* Requests GET /api/new-signal on concurrent threads, and outages of the
\* database between and during them.
NextPersist ==
  \/ \E t \in RequestThreads : Fetch(t) \/ Synthesize(t) \/ NewSignal(t)
  \/ DbOutage

SpecPersist == InitPersist /\ [][NextPersist]_vars

(* ============================ properties ============================ *)

\* C1: for any number of GET / requests, in any interleaving, at most one
\* background_data_updater thread is ever created.
C1_StartedOnce == Cardinality(UpdatersCreated) <= 1

\* C2: in every reachable state at most one execution of fetch_market_data and
\* at most one of fetch_economic_news is in progress, counting those of the
\* refresh loop and those of the request handlers.
C2_NoOverlap ==
  /\ Cardinality({t \in Threads : InFetchMarket(t)}) <= 1
  /\ Cardinality({t \in Threads : InFetchNews(t)}) <= 1

\* C3: in every signal analyze_signal returns, has_high_impact_news is true
\* if and only if the strategies contain "News Spike" = 1.
C3_ConsistentNews ==
  \A t \in RequestThreads :
    th[t].signal.made =>
      (th[t].signal.has_high_impact_news <=> th[t].signal.news_spike)

\* The last Min(n, HistoryCapacity) of the signals 1..n, in append order.
MostRecent(n) ==
  [i \in 1..Min(n, HistoryCapacity) |-> n - Min(n, HistoryCapacity) + i]

\* C4: once the handlers have returned, the history holds at most 10 signals,
\* and they are exactly the most recently appended min(n, 10), in append order.
C4_HistoryIsMostRecent ==
  (\A t \in RequestThreads : th[t].pc = "idle") =>
    /\ Len(history) <= HistoryCapacity
    /\ history = MostRecent(appended)

\* C5: a last_update stored in market_data is never earlier than the one it
\* replaces.
C5_LastUpdateMonotonic ==
  [][market_data'.last_update >= market_data.last_update]_vars

\* C6: every persisted signal has at most one signal result referencing it.
C6_AtMostOneResult ==
  \A i, j \in 1..Len(signal_results) :
    (/\ i # j
     /\ signal_results[i].signal_id \in Ids(signals)
     /\ signal_results[i].signal_id = signal_results[j].signal_id) => FALSE

WriteOps == {"save_signal", "save_signal_result", "save_market_snapshot"}

\* C7: when the insert or the commit of save_signal, save_signal_result or
\* save_market_snapshot fails, the call returns None, does not raise, and the
\* persisted records are those before the call.
C7_AllOrNothing ==
  [][(last'.op \in WriteOps /\ last'.failed) =>
       (last'.ret = None /\ ~last'.raised /\ tables' = tables)]_vars

\* A write failed on tables that hold rows.
C7_Witness ==
  /\ last.op \in WriteOps
  /\ last.failed
  /\ last.ret = None
  /\ Len(signals) > 0
  /\ Len(signal_results) > 0

\* C8: create_db_engine makes at most 3 attempts, sleeps only between attempts,
\* and returns the engine of the first attempt that connects, or the in-memory
\* fallback when all 3 fail; it never returns None.
C8_EngineCreated ==
  /\ boot.attempts <= EngineMaxRetries
  /\ boot.pc = "engine_try" => boot.sleeps = boot.attempts
  /\ boot.pc = "engine_sleep" => boot.sleeps = boot.attempts - 1
  /\ boot.pc \in {"init_db", "serving"} =>
       /\ engine \in {"url", "fallback"}
       /\ boot.sleeps = boot.attempts - 1
       /\ engine = "fallback" <=> boot.retry_count = EngineMaxRetries

\* All three attempts failed and the fallback engine serves.
C8_Witness ==
  /\ boot.pc = "serving"
  /\ engine = "fallback"
  /\ boot.attempts = EngineMaxRetries
  /\ boot.sleeps = EngineMaxRetries - 1

GatewayOps ==
  WriteOps \cup {"get_signals", "get_signal_by_id", "get_signal_statistics"}

\* C9: a gateway operation that meets a transient connection error surfaces
\* the failure only after it has been tried 3 times.
C9_RetriedBeforeFailure ==
  (last.op \in GatewayOps /\ last.transient /\ last.failed) =>
    last.attempts = OperationMaxRetries

\* The weighted-tally probability of the signal's flags, before the gate.
Unclamped == WeightedProbability(analysis.signal.strategies)

\* The window is enabled, the hour is inside it, and the news is high impact.
GatedByNews ==
  /\ analysis.made
  /\ trading_hours.enabled
  /\ analysis.now >= trading_hours.start
  /\ analysis.now < trading_hours.end
  /\ economic_news.high_impact

\* C10: inside an enabled window and under high impact news the signal has
\* trading_allowed = false and its probability is the larger of 10 and
\* floor(unclamped / 2): at least 10, and at most floor(unclamped / 2) whenever
\* unclamped is 20 or more.
C10_GatedProbability ==
  GatedByNews =>
    /\ ~analysis.signal.trading_allowed
    /\ analysis.signal.probability = Max(10, Unclamped \div 2)
    /\ analysis.signal.probability >= 10
    /\ Unclamped >= 20 => analysis.signal.probability <= Unclamped \div 2

\* A gated signal whose probability was halved and stays above the floor.
C10_Witness ==
  /\ GatedByNews
  /\ Unclamped >= 20
  /\ analysis.signal.probability = Unclamped \div 2
  /\ analysis.signal.probability > 10

\* C10 as stated: the gated probability is at most floor(unclamped / 2) and at
\* least 10, whatever the unclamped probability.
C10_AsStated ==
  GatedByNews =>
    /\ ~analysis.signal.trading_allowed
    /\ analysis.signal.probability <= Unclamped \div 2
    /\ analysis.signal.probability >= 10

\* C11: in every signal analyze_signal returns, whatever the market volume
\* (0 included), "Volume Confirmation" is 1 if and only if the volume is above
\* 1,000,000.
C11_VolumeDataDriven ==
  analysis.made =>
    (analysis.signal.strategies["Volume Confirmation"] = 1
       <=> analysis.signal.volume > 1000000)

\* The signals that have a recorded result.
SignalsWithResults ==
  {i \in 1..Len(signals) :
     \E j \in 1..Len(signal_results) :
       signal_results[j].signal_id = signals[i].id}

\* C12: after any sequence of save_signal and save_signal_result calls, a
\* get_signal_statistics whose queries go through returns the number of
\* persisted signals, the number of signals that have a result (never more
\* than the signals), the numbers of WIN and LOSS results, and the win rate
\* wins / signals_with_results * 100, or 0 when no signal has a result.
C12_Statistics ==
  (last.op = "get_signal_statistics" /\ ~last.failed) =>
    /\ last.ret.total_signals = Len(signals)
    /\ last.ret.signals_with_results = Cardinality(SignalsWithResults)
    /\ last.ret.signals_with_results <= last.ret.total_signals
    /\ last.ret.wins = CountResults("WIN")
    /\ last.ret.losses = CountResults("LOSS")
    /\ last.ret.win_rate = WinRate(last.ret.wins, Cardinality(SignalsWithResults))
    /\ ~last.raised

\* C13: in every signal analyze_signal returns, whatever the probability, the
\* pip draw and the market price (an unset price is replaced by a synthetic
\* entry): a LONG signal has its target above and its stop below the entry, a
\* SHORT signal its target below and its stop above.
C13_TargetAndStopSides ==
  analysis.made =>
    /\ analysis.signal.direction \in {"LONG", "SHORT"}
    /\ analysis.signal.direction = "LONG" =>
         /\ analysis.signal.target_price > analysis.signal.entry_price
         /\ analysis.signal.stop_loss < analysis.signal.entry_price
    /\ analysis.signal.direction = "SHORT" =>
         /\ analysis.signal.target_price < analysis.signal.entry_price
         /\ analysis.signal.stop_loss > analysis.signal.entry_price

\* A SHORT signal on the synthetic entry of an unset price, with the largest
\* risk/reward ratio and the smallest pip draw: the stop closest to the entry.
C13_Witness ==
  /\ analysis.made
  /\ market_data.current_price = 0
  /\ analysis.signal.direction = "SHORT"
  /\ analysis.signal.probability = 100
  /\ analysis.signal.pips_target = 15
  /\ analysis.signal.stop_loss = analysis.signal.entry_price + 50

\* C14: whatever the outcomes of the quote fetch and the news fetch (quote
\* stored, no rows, exception), background_data_updater never terminates, and
\* it starts a fetch cycle and reaches its sleep again and again.
C14_LoopGoesOn ==
  /\ [](th[LoopUpdater].kind = "updater")
  /\ []<>(th[LoopUpdater].pc = "fm_wait")
  /\ []<>(th[LoopUpdater].pc = "sleep")

\* The quote fetch raised before any price was stored, the fallback price
\* took its place, and the updater went on to the news fetch and its sleep.
C14_Witness ==
  /\ th[LoopUpdater].kind = "updater"
  /\ th[LoopUpdater].pc = "sleep"
  /\ market_data.current_price \in FallbackPrices
  /\ market_data.last_update = None
  /\ economic_news.last_update # None

\* C15: from process start and after any sequence of POST /api/settings
\* requests, 0 <= start < 24 and 0 <= end < 24.
C15_HoursInRange ==
  /\ trading_hours.start >= 0 /\ trading_hours.start < 24
  /\ trading_hours.end >= 0 /\ trading_hours.end < 24

\* C17: a POST /api/settings answered {success: false, error} leaves the
\* trading window as it was: no field of the body is applied.
C17_RejectedLeavesWindow ==
  [][(reply'.sent /\ ~reply'.success) => trading_hours' = trading_hours]_vars

\* C16: after any sequence of GET /api/new-signal requests, each of whose
\* saves succeeds or fails on its own, there are as many persisted market
\* snapshots as persisted signals.
C16_SnapshotPerSignal ==
  (\A t \in RequestThreads : th[t].pc = "idle") =>
    Len(market_snapshots) = Len(signals)

=============================================================================
